---- MODULE Spec2Model ----
(***************************************************************************)
(* State-machine models of the programs of the repository:                *)
(*   - OGDT   : the threaded online gradient descent learner              *)
(*              (src/unnamed/part_000),                                   *)
(*   - DDCM   : the trust-region driver loop of ddcm_test.cc,             *)
(*   - CF     : the parameter setters of the collaborative filtering      *)
(*              class (src/unnamed/part_001),                             *)
(*   - NNSVM  : NNSVM::Classify and NNSVM::BatchClassify (nnsvm_impl.h),  *)
(*   - LR     : LocalRegressionPostponed and LocalRegressionResult        *)
(*              (local_regression_dualtree.h).                            *)
(* Each program has its own specification (SpecOGDT, SpecDDCM, SpecCF,    *)
(* SpecNNSVM, SpecBatch, SpecLR); the variables of the other programs are *)
(* parked.                                                                *)
(***************************************************************************)
EXTENDS Integers, Sequences, FiniteSets, TLC

VARIABLES
  \* ---- OGDT (src/unnamed/part_000) ----
  main_pc,                \* position of OGDT::Learn: "create", "join", "done"
  create_t,               \* loop variable t of Learn's creation loop
  comm_method_,           \* Learner::comm_method_ (1: fully connected graph)
  t_state_,               \* t_state_[tid]
  t_n_it_,                \* t_n_it_[tid]
  w_pool_,                \* w_pool_[tid], a number (one weight)
  m_pool_,                \* m_pool_[tid], the message slot of tid
  thr_pc,                 \* position of each worker thread in OgdTThread
  loop_b,                 \* loop variable b of case 0, per thread
  loop_h,                 \* loop variable h of OgdTCommUpdate, per thread
  barrier_msg_all_sent_,  \* threads blocked in barrier_msg_all_sent_
  barrier_msg_all_used_,  \* threads blocked in barrier_msg_all_used_
  ex_left,                \* examples GetImmedExample can still hand out
  m_round,                \* history: round (t_n_it_) in which m_pool_[j] was written
  comm_done,              \* history: last round whose OgdTCommUpdate tid finished
  \* ---- CF (src/unnamed/part_001) ----
  numRecs,                \* CF::numRecs
  numUsersForSimilarity,  \* CF::numUsersForSimilarity
  cf_call,                \* history: the last setter call, <<name, argument>>
  cf_constructed,         \* history: <<numRecs, numUsersForSimilarity>> as constructed
  cf_last_valid,          \* history: the most recent argument >= 1 of each setter (0: none)
  \* ---- NNSVM (nnsvm_impl.h) ----
  model_w_,               \* model_.w_
  model_thresh_,          \* model_.thresh_
  datum,                  \* the argument of the last Classify call
  testlabel,              \* the value the last Classify call returned (-1: none yet)
  nn_call,                \* history: the last member function called
  \* ---- NNSVM::BatchClassify (nnsvm_impl.h) ----
  testset,                \* the argument testset: entry (row, column), from 0
  n_rows,                 \* testset.n_rows
  n_cols,                 \* testset.n_cols
  batch_num_features_,    \* num_features_ as BatchClassify assigns it
  batch_pc,               \* position of BatchClassify: "call", "loop", "done", "failed"
  batch_i,                \* loop variable i
  labels_written,         \* the lines written to the label file so far
  invalid_read,           \* history: an entry outside testset was read
  \* ---- local regression (local_regression_dualtree.h) ----
  pruned_,                \* LocalRegressionPostponed::pruned_
  used_error_,            \* LocalRegressionPostponed::used_error_
  applied,                \* history: the arguments applied since the last SetZero
  num_query_points_,      \* LocalRegressionResult::num_query_points_
  self_contribution_subtracted_, \* LocalRegressionResult: the array, as a sequence
  result_pruned_,         \* LocalRegressionResult::pruned_, as a sequence
  result_used_error_,     \* LocalRegressionResult::used_error_, as a sequence
  result_pc,              \* "constructed", "initialized", "loaded", "crashed"
  init_arg,               \* history: the argument of the last Init or load (-1: none)
  \* ---- DDCM driver (ddcm_test.cc, main) ----
  ddcm_pc,                \* position of main: "loop", "body", "accept", "stop", "done"
  num_of_people,          \* num_of_people
  initial_parameter,      \* initial_parameter
  list_size,              \* current_added_first_stage_x.size()
  obj_gradient,           \* the objective's gradient, per parameter, for the loaded sample
  sample_size,            \* sample_size
  end_sampling,           \* end_sampling
  current_percent_added_sample,
  current_parameter,      \* current_parameter
  current_radius,         \* current_radius
  correction_factor,      \* correction_factor
  iteration_count,        \* iteration_count
  current_hessian,        \* the current_hessian that lines 311-541 name
  current_objective,      \* current_objective
  next_objective,         \* next_objective
  current_gradient,       \* current_gradient
  current_delta_m,        \* current_delta_m
  next_parameter,         \* next_parameter (the loop body's)
  p_norm,                 \* p_norm
  sampling_error,         \* sampling_error
  next_gradient,          \* next_gradient
  rho,                    \* rho
  diff_gradient,          \* diff_gradient
  diff_par,               \* diff_par
  hessian_passed,         \* the Hessian handed to ComputeDerectionUnderConstraints
  updated_hessian,        \* updated_hessian
  new_radius,             \* new_radius
  expand_arg,             \* history: the percentage of the last ExpandSubset call
  expand_calls,           \* history: the number of ExpandSubset (and Init3) calls
  radius_update,          \* history: <<rho, p_norm, radius>> passed to this iteration's
                          \* TrustRadiusUpdate call
  radius_calls,           \* history: the number of TrustRadiusUpdate calls
  last_accepted           \* history: the candidate of the last accepted step

ogdtVars == <<main_pc, create_t, comm_method_, t_state_, t_n_it_, w_pool_, m_pool_,
              thr_pc, loop_b, loop_h, barrier_msg_all_sent_, barrier_msg_all_used_,
              ex_left, m_round, comm_done>>

cfVars == <<numRecs, numUsersForSimilarity, cf_call, cf_constructed, cf_last_valid>>

nnVars == <<model_w_, model_thresh_, datum, testlabel, nn_call>>

batchVars == <<testset, n_rows, n_cols, batch_num_features_, batch_pc, batch_i,
               labels_written, invalid_read>>

postponedVars == <<pruned_, used_error_, applied>>

resultVars == <<num_query_points_, self_contribution_subtracted_, result_pruned_,
                result_used_error_, result_pc, init_arg>>

lrVars == <<postponedVars, resultVars>>

ddcmInputs == <<num_of_people, initial_parameter>>

ddcmState == <<list_size, obj_gradient, sample_size, end_sampling,
               current_percent_added_sample, current_parameter, current_radius,
               correction_factor, iteration_count, current_hessian>>

ddcmTemps == <<current_objective, next_objective, current_gradient, current_delta_m,
               next_parameter, p_norm, sampling_error, next_gradient, rho,
               diff_gradient, diff_par, hessian_passed, updated_hessian, new_radius>>

ddcmHistory == <<expand_arg, expand_calls, last_accepted, radius_update, radius_calls>>

ddcmVars == <<ddcm_pc, ddcmInputs, ddcmState, ddcmTemps, ddcmHistory>>

vars == <<ogdtVars, cfVars, nnVars, batchVars, lrVars, ddcmVars>>

(***************************************************************************)
(* double arithmetic.  A double is a pair <<n, d>> with d >= 0 in lowest  *)
(* terms: d > 0 is the finite value n/d, <<1,0>> is +inf, <<-1,0>> is     *)
(* -inf and <<0,0>> is NaN.  Rounding and the sign of zero are not        *)
(* modelled.                                                              *)
(***************************************************************************)
Abs(x) == IF x < 0 THEN -x ELSE x

Sign(x) == IF x < 0 THEN -1 ELSE IF x > 0 THEN 1 ELSE 0

RECURSIVE Gcd(_, _)
Gcd(a, b) == IF b = 0 THEN a ELSE Gcd(b, a % b)

Norm(n, d) ==
  IF d = 0 THEN <<Sign(n), 0>>
  ELSE LET g == Gcd(Abs(n), Abs(d))
       IN  <<Sign(d) * (n \div g), Abs(d) \div g>>

Fin(n)   == <<n, 1>>
NaN      == <<0, 0>>
PInf     == <<1, 0>>
NInf     == <<-1, 0>>
IsNaN(x) == x = NaN
IsFinite(x) == x[2] > 0

DAdd(x, y) ==
  IF IsNaN(x) \/ IsNaN(y) THEN NaN
  ELSE IF x[2] = 0 /\ y[2] = 0 THEN (IF x = y THEN x ELSE NaN)
  ELSE IF x[2] = 0 THEN x
  ELSE IF y[2] = 0 THEN y
  ELSE Norm(x[1] * y[2] + y[1] * x[2], x[2] * y[2])

DNeg(x) == <<-x[1], x[2]>>

DSub(x, y) == DAdd(x, DNeg(y))

DMul(x, y) == Norm(x[1] * y[1], x[2] * y[2])

DInv(y) ==
  IF y[1] > 0 THEN <<y[2], y[1]>>
  ELSE IF y[1] < 0 THEN <<-y[2], -y[1]>>
  ELSE IF y[2] > 0 THEN PInf
  ELSE NaN

DDiv(x, y) == DMul(x, DInv(y))

DLess(x, y) ==
  IF IsNaN(x) \/ IsNaN(y) THEN FALSE
  ELSE IF x[2] = 0 /\ y[2] = 0 THEN x[1] < y[1]
  ELSE x[1] * y[2] < y[1] * x[2]

DGreater(x, y) == DLess(y, x)

DAbs(x) == <<Abs(x[1]), x[2]>>

(***************************************************************************)
(* OGDT: the threaded learner of src/unnamed/part_000.                    *)
(***************************************************************************)
NThread == 2
MbSize == 1
NExamples == 5

n_thread_ == NThread
mb_size_ == MbSize
Threads == 0 .. (n_thread_ - 1)

\* The values a local update (lines 91-125) can leave in w_pool_[tid].
WVals == {Fin(0), Fin(1)}

\* t_state_[t] before Learn assigns it: whatever the Learner left there.
StaleStates == {0, 3}

OGDTInit ==
  /\ main_pc = "create"
  /\ create_t = 0
  /\ comm_method_ \in {0, 1}
  /\ \E s \in StaleStates : t_state_ = [t \in Threads |-> s]
  /\ t_n_it_ = [t \in Threads |-> 0]
  /\ w_pool_ = [t \in Threads |-> Fin(0)]
  /\ m_pool_ = [t \in Threads |-> Fin(0)]
  /\ thr_pc = [t \in Threads |-> "none"]
  /\ loop_b = [t \in Threads |-> 0]
  /\ loop_h = [t \in Threads |-> 0]
  /\ barrier_msg_all_sent_ = {}
  /\ barrier_msg_all_used_ = {}
  /\ ex_left \in 0 .. NExamples
  /\ m_round = [t \in Threads |-> 0]
  /\ comm_done = [t \in Threads |-> 0]

\* A creation loop that leaves t_state_[t] as it found it.
LearnInitStateSkipped(t) == t_state_

\* Learn, line 173: t_state_[t] = 0.
LearnInitState(t) == [t_state_ EXCEPT ![t] = 0]

\* Learn, lines 167-180: one turn of the creation loop.
LearnCreate ==
  /\ main_pc = "create"
  /\ create_t < n_thread_
  /\ t_state_' = LearnInitState(create_t)
  /\ t_n_it_' = [t_n_it_ EXCEPT ![create_t] = 0]
  /\ w_pool_' = [w_pool_ EXCEPT ![create_t] = Fin(0)]
  /\ thr_pc' = [thr_pc EXCEPT ![create_t] = "switch"]
  /\ create_t' = create_t + 1
  /\ main_pc' = IF create_t + 1 < n_thread_ THEN "create" ELSE "join"
  /\ UNCHANGED <<comm_method_, m_pool_, loop_b, loop_h, barrier_msg_all_sent_,
                 barrier_msg_all_used_, ex_left, m_round, comm_done>>

\* Learn, lines 182-183: FinishThreads joins every thread, then SaveLog.
LearnFinish ==
  /\ main_pc = "join"
  /\ \A t \in Threads : thr_pc[t] \in {"returned", "error"}
  /\ main_pc' = "done"
  /\ UNCHANGED <<create_t, comm_method_, t_state_, t_n_it_, w_pool_, m_pool_, thr_pc,
                 loop_b, loop_h, barrier_msg_all_sent_, barrier_msg_all_used_,
                 ex_left, m_round, comm_done>>

\* OgdTThread, line 78: switch (Lp->t_state_[tid]).
SwitchTarget(s) ==
  CASE s = 0 -> "read"
    [] s = 1 -> "predict"
    [] s = 2 -> "comm"
    [] OTHER -> "error"

ThreadSwitch(tid) ==
  /\ thr_pc[tid] = "switch"
  /\ thr_pc' = [thr_pc EXCEPT ![tid] = SwitchTarget(t_state_[tid])]
  /\ UNCHANGED <<main_pc, create_t, comm_method_, t_state_, t_n_it_, w_pool_, m_pool_,
                 loop_b, loop_h, barrier_msg_all_sent_, barrier_msg_all_used_,
                 ex_left, m_round, comm_done>>

\* Learner::GetImmedExample: hands out the next example while any is left.
GetImmedExample == ex_left > 0

\* OgdTThread case 0, lines 80-89: one turn of the mini-batch loop.
ThreadRead(tid) ==
  /\ thr_pc[tid] = "read"
  /\ IF GetImmedExample
     THEN /\ ex_left' = ex_left - 1
          /\ IF loop_b[tid] + 1 < mb_size_
             THEN /\ loop_b' = [loop_b EXCEPT ![tid] = loop_b[tid] + 1]
                  /\ UNCHANGED <<t_state_, thr_pc>>
             ELSE /\ loop_b' = [loop_b EXCEPT ![tid] = 0]
                  /\ t_state_' = [t_state_ EXCEPT ![tid] = 1]
                  /\ thr_pc' = [thr_pc EXCEPT ![tid] = "switch"]
     ELSE /\ thr_pc' = [thr_pc EXCEPT ![tid] = "returned"]
          /\ UNCHANGED <<ex_left, loop_b, t_state_>>
  /\ UNCHANGED <<main_pc, create_t, comm_method_, t_n_it_, w_pool_, m_pool_, loop_h,
                 barrier_msg_all_sent_, barrier_msg_all_used_, m_round, comm_done>>

\* OgdTThread case 1, lines 91-129: local update, then the message is sent.
ThreadPredict(tid) ==
  /\ thr_pc[tid] = "predict"
  /\ t_n_it_' = [t_n_it_ EXCEPT ![tid] = t_n_it_[tid] + 1]
  /\ \E w \in WVals :
       /\ w_pool_' = [w_pool_ EXCEPT ![tid] = w]
       /\ m_pool_' = [m_pool_ EXCEPT ![tid] = w]
  /\ m_round' = [m_round EXCEPT ![tid] = t_n_it_[tid] + 1]
  /\ thr_pc' = [thr_pc EXCEPT ![tid] = "wait_sent"]
  /\ UNCHANGED <<main_pc, create_t, comm_method_, t_state_, loop_b, loop_h,
                 barrier_msg_all_sent_, barrier_msg_all_used_, ex_left, comm_done>>

\* pthread_barrier_wait on a barrier initialised with count n_thread_
\* (lines 151-152): the caller that completes the count releases everyone.
BarrierSentCountOne(waiting, tid) == Cardinality(waiting \cup {tid}) >= 1

BarrierUsedCountOne(waiting, tid) == Cardinality(waiting \cup {tid}) >= 1

BarrierSentFull(waiting, tid) == Cardinality(waiting \cup {tid}) = n_thread_

BarrierUsedFull(waiting, tid) == Cardinality(waiting \cup {tid}) = n_thread_

\* OgdTThread line 131: pthread_barrier_wait(&barrier_msg_all_sent_).
ThreadWaitSent(tid) ==
  /\ thr_pc[tid] = "wait_sent"
  /\ IF BarrierSentFull(barrier_msg_all_sent_, tid)
     THEN /\ thr_pc' = [t \in Threads |->
                          IF t = tid \/ t \in barrier_msg_all_sent_
                          THEN "sent_done" ELSE thr_pc[t]]
          /\ barrier_msg_all_sent_' = {}
     ELSE /\ thr_pc' = [thr_pc EXCEPT ![tid] = "sent_blocked"]
          /\ barrier_msg_all_sent_' = barrier_msg_all_sent_ \cup {tid}
  /\ UNCHANGED <<main_pc, create_t, comm_method_, t_state_, t_n_it_, w_pool_, m_pool_,
                 loop_b, loop_h, barrier_msg_all_used_, ex_left, m_round, comm_done>>

\* OgdTThread lines 132-133: t_state_[tid] = 2.
ThreadSentDone(tid) ==
  /\ thr_pc[tid] = "sent_done"
  /\ t_state_' = [t_state_ EXCEPT ![tid] = 2]
  /\ thr_pc' = [thr_pc EXCEPT ![tid] = "switch"]
  /\ UNCHANGED <<main_pc, create_t, comm_method_, t_n_it_, w_pool_, m_pool_, loop_b,
                 loop_h, barrier_msg_all_sent_, barrier_msg_all_used_, ex_left,
                 m_round, comm_done>>

\* A loop that adds the thread's own message as well.
CommSumOwnToo(tid, h) == DAdd(w_pool_[tid], m_pool_[h])

\* OgdTCommUpdate, lines 52-56: w_pool_[tid] after the turn for h.
CommSum(tid, h) == IF h # tid THEN DAdd(w_pool_[tid], m_pool_[h]) ELSE w_pool_[tid]

\* OgdTCommUpdate, lines 51-58: one turn of the loop over h, or the final
\* division once h has reached n_thread_.
OgdTCommUpdate(tid) ==
  IF comm_method_ = 1
  THEN IF loop_h[tid] < n_thread_
       THEN /\ w_pool_' = [w_pool_ EXCEPT ![tid] = CommSum(tid, loop_h[tid])]
            /\ loop_h' = [loop_h EXCEPT ![tid] = loop_h[tid] + 1]
            /\ UNCHANGED <<thr_pc, comm_done>>
       ELSE /\ w_pool_' = [w_pool_ EXCEPT ![tid] = DDiv(w_pool_[tid], Fin(n_thread_))]
            /\ loop_h' = [loop_h EXCEPT ![tid] = 0]
            /\ thr_pc' = [thr_pc EXCEPT ![tid] = "wait_used"]
            /\ comm_done' = [comm_done EXCEPT ![tid] = t_n_it_[tid]]
  ELSE /\ thr_pc' = [thr_pc EXCEPT ![tid] = "wait_used"]
       /\ comm_done' = [comm_done EXCEPT ![tid] = t_n_it_[tid]]
       /\ UNCHANGED <<w_pool_, loop_h>>

\* OgdTThread case 2, line 135.
ThreadComm(tid) ==
  /\ thr_pc[tid] = "comm"
  /\ OgdTCommUpdate(tid)
  /\ UNCHANGED <<main_pc, create_t, comm_method_, t_state_, t_n_it_, m_pool_, loop_b,
                 barrier_msg_all_sent_, barrier_msg_all_used_, ex_left, m_round>>

\* OgdTThread line 137: pthread_barrier_wait(&barrier_msg_all_used_).
ThreadWaitUsed(tid) ==
  /\ thr_pc[tid] = "wait_used"
  /\ IF BarrierUsedFull(barrier_msg_all_used_, tid)
     THEN /\ thr_pc' = [t \in Threads |->
                          IF t = tid \/ t \in barrier_msg_all_used_
                          THEN "used_done" ELSE thr_pc[t]]
          /\ barrier_msg_all_used_' = {}
     ELSE /\ thr_pc' = [thr_pc EXCEPT ![tid] = "used_blocked"]
          /\ barrier_msg_all_used_' = barrier_msg_all_used_ \cup {tid}
  /\ UNCHANGED <<main_pc, create_t, comm_method_, t_state_, t_n_it_, w_pool_, m_pool_,
                 loop_b, loop_h, barrier_msg_all_sent_, ex_left, m_round, comm_done>>

\* OgdTThread lines 139-140: t_state_[tid] = 0.
ThreadUsedDone(tid) ==
  /\ thr_pc[tid] = "used_done"
  /\ t_state_' = [t_state_ EXCEPT ![tid] = 0]
  /\ thr_pc' = [thr_pc EXCEPT ![tid] = "switch"]
  /\ UNCHANGED <<main_pc, create_t, comm_method_, t_n_it_, w_pool_, m_pool_, loop_b,
                 loop_h, barrier_msg_all_sent_, barrier_msg_all_used_, ex_left,
                 m_round, comm_done>>

\* The learner before Learn is called, for the specifications of the other programs.
OGDTParked ==
  /\ main_pc = "create"
  /\ create_t = 0
  /\ comm_method_ = 0
  /\ t_state_ = [t \in Threads |-> 0]
  /\ t_n_it_ = [t \in Threads |-> 0]
  /\ w_pool_ = [t \in Threads |-> Fin(0)]
  /\ m_pool_ = [t \in Threads |-> Fin(0)]
  /\ thr_pc = [t \in Threads |-> "none"]
  /\ loop_b = [t \in Threads |-> 0]
  /\ loop_h = [t \in Threads |-> 0]
  /\ barrier_msg_all_sent_ = {}
  /\ barrier_msg_all_used_ = {}
  /\ ex_left = 0
  /\ m_round = [t \in Threads |-> 0]
  /\ comm_done = [t \in Threads |-> 0]

(***************************************************************************)
(* CF: the setters of src/unnamed/part_001.                               *)
(***************************************************************************)
MaxSize == 3

\* A size_t argument or field, up to the bound.
SizeVals == 0 .. MaxSize

\* The constructors (lines 64-82) store their arguments or defaults.
CFInit ==
  /\ numRecs \in SizeVals
  /\ numUsersForSimilarity \in SizeVals
  /\ cf_call = <<"CF", 0>>
  /\ cf_constructed = <<numRecs, numUsersForSimilarity>>
  /\ cf_last_valid = <<0, 0>>

\* A setter without the validity test.
NumRecsStoredUnchecked(recs) == recs

\* The value numRecs holds after NumRecs(recs), lines 87-93.
NumRecsStored(recs) == IF recs < 1 THEN numRecs ELSE recs

\* The value numUsersForSimilarity holds after NumUsersForSimilarity(num),
\* lines 117-123.
NumUsersStored(num) == IF num < 1 THEN numUsersForSimilarity ELSE num

NumRecs(recs) ==
  /\ numRecs' = NumRecsStored(recs)
  /\ cf_call' = <<"NumRecs", recs>>
  /\ cf_last_valid' = IF recs >= 1 THEN <<recs, cf_last_valid[2]>> ELSE cf_last_valid
  /\ UNCHANGED <<numUsersForSimilarity, cf_constructed>>

NumUsersForSimilarity(num) ==
  /\ numUsersForSimilarity' = NumUsersStored(num)
  /\ cf_call' = <<"NumUsersForSimilarity", num>>
  /\ cf_last_valid' = IF num >= 1 THEN <<cf_last_valid[1], num>> ELSE cf_last_valid
  /\ UNCHANGED <<numRecs, cf_constructed>>

CFParked ==
  /\ numRecs = 1
  /\ numUsersForSimilarity = 1
  /\ cf_call = <<"CF", 0>>
  /\ cf_constructed = <<1, 1>>
  /\ cf_last_valid = <<0, 0>>

(***************************************************************************)
(* NNSVM: Classify of nnsvm_impl.h.                                       *)
(***************************************************************************)
NFeatures == 2

num_features_ == NFeatures

\* The entries of weight vectors, thresholds and test vectors.
NumVals == {-1, 0, 1}

FeatureVecs == [1 .. num_features_ -> NumVals]

\* dot(a, b) of two vectors of the same length.
RECURSIVE DotUpTo(_, _, _)
DotUpTo(a, b, k) == IF k = 0 THEN 0 ELSE DotUpTo(a, b, k - 1) + a[k] * b[k]

dot(a, b) == DotUpTo(a, b, num_features_)

\* InitTrain, lines 60-63: the trained model (NNSMO's result) is stored.
InitTrain ==
  /\ model_w_' \in FeatureVecs
  /\ model_thresh_' \in NumVals
  /\ nn_call' = "InitTrain"
  /\ UNCHANGED <<datum, testlabel>>

NNInit ==
  /\ model_w_ \in FeatureVecs
  /\ model_thresh_ \in NumVals
  /\ datum = [j \in 1 .. num_features_ |-> 0]
  /\ testlabel = -1
  /\ nn_call = "InitTrain"

\* A classifier that also labels the boundary 1.
ClassifyLabelInclusive(d) ==
  LET summation == dot(model_w_, d)
  IN  IF summation - model_thresh_ >= 0 THEN 1 ELSE 0

\* Classify, lines 207-211: the value returned for test vector d.
ClassifyLabel(d) ==
  LET summation == dot(model_w_, d)
  IN  IF summation - model_thresh_ > 0 THEN 1 ELSE 0

Classify ==
  \E d \in FeatureVecs :
    /\ datum' = d
    /\ testlabel' = ClassifyLabel(d)
    /\ nn_call' = "Classify"
    /\ UNCHANGED <<model_w_, model_thresh_>>

NNParked ==
  /\ model_w_ = [j \in 1 .. num_features_ |-> 0]
  /\ model_thresh_ = 0
  /\ datum = [j \in 1 .. num_features_ |-> 0]
  /\ testlabel = -1
  /\ nn_call = "InitTrain"

(***************************************************************************)
(* NNSVM::BatchClassify of nnsvm_impl.h.  The model was trained on data    *)
(* with num_features_ features; the test set has one row per feature and  *)
(* a last row of labels, and one column per test vector.                  *)
(***************************************************************************)
MaxCols == 3

\* The entries of the feature rows of a test set.
TestVals == {0, 1}

\* The test sets with num_features_ + 1 rows and cols columns; the last row
\* holds the dummy label -1 (lines 220-221).
TestSets(cols) ==
  {t \in [(0 .. num_features_) \X (0 .. (cols - 1)) -> TestVals \cup {-1}] :
     \A c \in 0 .. (cols - 1) :
       /\ t[<<num_features_, c>>] = -1
       /\ \A r \in 0 .. (num_features_ - 1) : t[<<r, c>>] \in TestVals}

BatchInit ==
  /\ n_rows = num_features_ + 1
  /\ n_cols \in 1 .. MaxCols
  /\ testset \in TestSets(n_cols)
  /\ batch_num_features_ = num_features_
  /\ batch_pc = "call"
  /\ batch_i = 0
  /\ labels_written = <<>>
  /\ invalid_read = FALSE

\* BatchClassify, lines 229-235: the label file is opened (or not) and
\* num_features_ is assigned.
BatchClassifyOpen ==
  /\ batch_pc = "call"
  /\ \E opened \in BOOLEAN :
       IF opened
       THEN /\ batch_num_features_' = n_cols - 1
            /\ batch_pc' = "loop"
       ELSE /\ batch_pc' = "failed"
            /\ UNCHANGED batch_num_features_
  /\ batch_i' = 0
  /\ UNCHANGED <<testset, n_rows, n_cols, labels_written, invalid_read>>

\* testset(j, i) is an entry of the matrix.
ValidEntry(j, i) == j < n_rows /\ i < n_cols

\* The vectors lines 238-242 can leave in testvec: testvec[j] = testset(j, i)
\* where that is an entry, anything where it is not.
TestVecs(i) ==
  {v \in [1 .. batch_num_features_ -> TestVals \cup {-1}] :
     \A j \in 0 .. (batch_num_features_ - 1) :
       ValidEntry(j, i) => v[j + 1] = testset[<<j, i>>]}

\* Classify(testvec), line 243: dot(model_.w_, testvec) is defined for
\* vectors of the length of model_.w_, any label otherwise.
BatchLabels(v) ==
  IF batch_num_features_ = num_features_ THEN {ClassifyLabel(v)} ELSE {0, 1}

\* BatchClassify, lines 236-245: one turn of the loop over i.
BatchClassifyVector ==
  /\ batch_pc = "loop"
  /\ batch_i < n_rows
  /\ \E v \in TestVecs(batch_i) : \E l \in BatchLabels(v) :
       labels_written' = Append(labels_written, l)
  /\ invalid_read' = (invalid_read \/
                      \E j \in 0 .. (batch_num_features_ - 1) : ~ValidEntry(j, batch_i))
  /\ batch_i' = batch_i + 1
  /\ UNCHANGED <<testset, n_rows, n_cols, batch_num_features_, batch_pc>>

\* BatchClassify, lines 236 and 246: the loop ends, the file is closed.
BatchClassifyClose ==
  /\ batch_pc = "loop"
  /\ ~(batch_i < n_rows)
  /\ batch_pc' = "done"
  /\ UNCHANGED <<testset, n_rows, n_cols, batch_num_features_, batch_i,
                 labels_written, invalid_read>>

BatchParked ==
  /\ n_rows = num_features_ + 1
  /\ n_cols = 1
  /\ testset = [e \in (0 .. num_features_) \X {0} |-> -1]
  /\ batch_num_features_ = num_features_
  /\ batch_pc = "call"
  /\ batch_i = 0
  /\ labels_written = <<>>
  /\ invalid_read = FALSE

(***************************************************************************)
(* Local regression: LocalRegressionPostponed and LocalRegressionResult   *)
(* of local_regression_dualtree.h.  Of the postponed quantities only      *)
(* pruned_ and used_error_ are kept; a scoped_array is the sequence of    *)
(* its entries, the empty sequence when it holds no array.                *)
(***************************************************************************)
MaxApplied == 3
MaxPoints == 2

\* Values of the pruned_ and used_error_ fields of a delta or of another
\* postponed object.
PrunedVals == {Fin(0), Fin(2)}

ErrorVals == {Fin(0), Norm(1, 2)}

\* LocalRegressionPostponed(), lines 91-93, and LocalRegressionResult(),
\* lines 583-586.
LRInit ==
  /\ pruned_ = Fin(0)
  /\ used_error_ = Fin(0)
  /\ applied = <<>>
  /\ num_query_points_ = 0
  /\ self_contribution_subtracted_ = <<>>
  /\ result_pruned_ = <<>>
  /\ result_used_error_ = <<>>
  /\ result_pc = "constructed"
  /\ init_arg = -1

\* An accumulation that keeps only the incoming value (as Copy does).
AccumulateOverwrite(old, incoming) == DAdd(Fin(0), incoming)

\* Lines 159-160 and 177-178: pruned_ = pruned_ + delta_in.pruned_.
Accumulate(old, incoming) == DAdd(old, incoming)

\* LocalRegressionPostponed::ApplyDelta, lines 145-161.
ApplyDelta(delta_pruned, delta_used_error) ==
  /\ Len(applied) < MaxApplied
  /\ pruned_' = Accumulate(pruned_, delta_pruned)
  /\ used_error_' = Accumulate(used_error_, delta_used_error)
  /\ applied' = Append(applied, <<"ApplyDelta", delta_pruned, delta_used_error>>)
  /\ UNCHANGED resultVars

\* LocalRegressionPostponed::ApplyPostponed, lines 165-179.
ApplyPostponed(other_pruned, other_used_error) ==
  /\ Len(applied) < MaxApplied
  /\ pruned_' = Accumulate(pruned_, other_pruned)
  /\ used_error_' = Accumulate(used_error_, other_used_error)
  /\ applied' = Append(applied, <<"ApplyPostponed", other_pruned, other_used_error>>)
  /\ UNCHANGED resultVars

\* LocalRegressionPostponed::SetZero, lines 243-252.
PostponedSetZero ==
  /\ pruned_' = Fin(0)
  /\ used_error_' = Fin(0)
  /\ applied' = <<>>
  /\ UNCHANGED resultVars

\* LocalRegressionPostponed::FinalSetZero, lines 256-258.
FinalSetZero ==
  /\ applied # <<>>
  /\ PostponedSetZero

\* The entries of the arrays that lines 602-640 allocate.
AllocatedEntries(num_points) == num_query_points_

\* LocalRegressionResult::SetZero, lines 646-658, on arrays of the given
\* numbers of entries: the loop writes entry i of every array for
\* i < points.  A write past the end of an array (or into no array) is
\* undefined: the call crashes, or the write is lost.
ResultSetZero(points, flags, pruned_entries) ==
  \/ /\ points <= flags /\ points <= pruned_entries
     /\ self_contribution_subtracted_' = [i \in 1 .. flags |-> FALSE]
     /\ result_pruned_' = [i \in 1 .. pruned_entries |-> Fin(0)]
     /\ result_used_error_' = [i \in 1 .. pruned_entries |-> Fin(0)]
     /\ result_pc' \in {"initialized"}
  \/ /\ ~(points <= flags /\ points <= pruned_entries)
     /\ self_contribution_subtracted_' = [i \in 1 .. flags |-> FALSE]
     /\ result_pruned_' = [i \in 1 .. pruned_entries |-> Fin(0)]
     /\ result_used_error_' = [i \in 1 .. pruned_entries |-> Fin(0)]
     /\ result_pc' \in {"initialized", "crashed"}

\* LocalRegressionResult::Init(num_points), lines 600-644: pruned_ and
\* used_error_ are not among the arrays it allocates.
ResultInit(num_points) ==
  /\ result_pc # "crashed"
  /\ init_arg' = num_points
  /\ UNCHANGED num_query_points_
  /\ ResultSetZero(num_query_points_, AllocatedEntries(num_points), Len(result_pruned_))
  /\ UNCHANGED postponedVars

\* LocalRegressionResult::load, lines 554-574, of an archive that holds
\* num_points zeroed entries.
ResultLoad(num_points) ==
  /\ result_pc # "crashed"
  /\ init_arg' = num_points
  /\ num_query_points_' = num_points
  /\ ResultSetZero(num_points, num_points, Len(result_pruned_))
  /\ UNCHANGED postponedVars

LRParked == LRInit

(***************************************************************************)
(* DDCM: the driver loop of ddcm_test.cc.  Vectors have one entry: a      *)
(* parameter vector is a number of 0 .. MaxParam, a gradient is a double. *)
(* The objective, the optimizer and the sampler are not part of the       *)
(* sources: what they return is drawn from the sets below.                *)
(***************************************************************************)
MaxPeople == 3
MaxParam == 1
MaxStall == 1

max_iteration == 50

Params == 0 .. MaxParam

\* A double written as a quotient of two integers.
Frac(n, d) == Norm(n, d)

eta == Frac(2, 10)
zero_tolerance == Frac(1, 1000)
initial_radius == Frac(1, 100)

\* The value of a variable that holds nothing yet.
Unset == <<0, -1>>

\* initial_percent_sampling, as read by sampling.Init.
PercentVals == {Fin(50)}

\* Values of ComputeObjective.
ObjVals == {Fin(0), Fin(1)}

\* Values of an entry of ComputeGradient.
GradVals == {Fin(0), zero_tolerance}

\* Values of current_delta_m that ComputeDerectionUnderConstraints returns.
DeltaVals == {Frac(1, 2), Fin(5)}

\* Values of new_radius and of the radius TrustRadiusUpdate leaves.
RadiusVals == {initial_radius, Frac(1, 200)}

\* Values of current_choice_probability[n] - next_choice_probability[n].
DiffVals == {Fin(0), Fin(1)}

\* What a Matrix that was declared but never filled can hold.
HessVals == {Fin(0), Fin(1)}

\* objective.ComputeHessian(current_sample_size, parameter, &hessian).
ComputeHessian(parameter) == Fin(1)

\* la::SubOverwrite(x, y, &z): z = y - x.
SubOverwrite(x, y) == DSub(y, x)

\* objective.ComputeGradient(current_sample_size, parameter, &gradient).
ComputeGradient(parameter) == obj_gradient[parameter]

\* sampling.ExpandSubset: the sizes the working sample can have afterwards.
\* It adds nobody only in the first MaxStall iterations.
ExpandSubset(size) ==
  {n \in size .. num_of_people : n > size \/ iteration_count < MaxStall}

\* main, lines 33-169: the state before the loop.
DDCMInit ==
  /\ ddcm_pc = "loop"
  /\ num_of_people \in 1 .. MaxPeople
  /\ initial_parameter \in Params
  /\ list_size = 0
  /\ obj_gradient = [q \in Params |-> Fin(0)]
  /\ sample_size = 0
  /\ end_sampling = 0
  /\ current_percent_added_sample \in PercentVals
  /\ current_parameter = initial_parameter
  /\ current_radius = initial_radius
  /\ correction_factor = Fin(0)
  /\ iteration_count = 0
  /\ current_hessian \in HessVals
  /\ current_objective = Unset
  /\ next_objective = Unset
  /\ current_gradient = Unset
  /\ current_delta_m = Unset
  /\ next_parameter = -1
  /\ p_norm = Fin(0)
  /\ sampling_error = Unset
  /\ next_gradient = Unset
  /\ rho = Fin(0)
  /\ diff_gradient = Fin(0)
  /\ diff_par = Fin(0)
  /\ hessian_passed = Unset
  /\ updated_hessian = Unset
  /\ new_radius = Unset
  /\ expand_arg = Unset
  /\ expand_calls = 0
  /\ last_accepted = -1
  /\ radius_update = Unset
  /\ radius_calls = 0

\* The percentage handed to sampling.ExpandSubset, line 179.
ExpandPercent == current_percent_added_sample

\* A loop that runs once more.
LoopConditionInclusive == iteration_count <= max_iteration

\* main, line 171: while(iteration_count<max_iteration).
LoopCondition == iteration_count < max_iteration

\* main, line 177: if(end_sampling==0).
ExpandOpen == end_sampling = 0

\* main, lines 171-197: the loop test, the count, ExpandSubset and Init3.
ExpandSample ==
  /\ ddcm_pc = "loop"
  /\ LoopCondition
  /\ iteration_count' = iteration_count + 1
  /\ IF ExpandOpen
     THEN /\ list_size' \in ExpandSubset(list_size)
          /\ expand_arg' = ExpandPercent
          /\ expand_calls' = expand_calls + 1
          /\ IF list_size' # list_size
             THEN obj_gradient' \in [Params -> GradVals]
             ELSE obj_gradient' = obj_gradient
     ELSE UNCHANGED <<list_size, expand_arg, expand_calls, obj_gradient>>
  /\ ddcm_pc' = "body"
  /\ UNCHANGED <<ddcmInputs, sample_size, end_sampling, current_percent_added_sample,
                 current_parameter, current_radius, correction_factor, current_hessian,
                 ddcmTemps, last_accepted, radius_update, radius_calls>>

\* main, lines 171 and 592-597: the loop ends at max_iteration.
LoopExit ==
  /\ ddcm_pc = "loop"
  /\ ~LoopCondition
  /\ ddcm_pc' = "done"
  /\ UNCHANGED <<ddcmInputs, ddcmState, ddcmTemps, ddcmHistory>>

\* main, lines 466-478: sampling_error for a sample of size s, the objective
\* difference obj_diff and the choice probability differences d[1..s].
RECURSIVE SumSquares(_, _, _)
SumSquares(d, obj_diff, n) ==
  IF n = 0 THEN Fin(0)
  ELSE LET dev == DSub(d[n], obj_diff)
       IN  DAdd(SumSquares(d, obj_diff, n - 1), DMul(dev, dev))

CorrectionFactor(s) == DDiv(Fin(num_of_people - s), DSub(Fin(num_of_people), Fin(1)))

SamplingError(d, obj_diff, s) ==
  DMul(SumSquares(d, obj_diff, s), DDiv(CorrectionFactor(s), Fin(s * (s - 1))))

\* A rule that forgets to square the ratio.
PercentAddedNotSquared(delta_m, error, percent) ==
  IF DLess(delta_m, DMul(Frac(1, 2), error))
  THEN DMul(DDiv(DMul(Frac(1, 2), error), delta_m), Fin(100))
  ELSE percent

\* main, lines 481-485: the percentage after the sampling error is known.
PercentAdded(delta_m, error, percent) ==
  IF DLess(delta_m, DMul(Frac(1, 2), error))
  THEN LET ratio == DDiv(DMul(Frac(1, 2), error), delta_m)
       IN  DMul(DMul(ratio, ratio), Fin(100))
  ELSE percent

\* The step current_p of ComputeDerectionUnderConstraints: the candidate is
\* current_parameter + current_p (line 400).
CurrentP(parameter, candidate) == DSub(Fin(candidate), Fin(parameter))

\* main, line 499: the gradient stored in next_gradient.
NextGradient == ComputeGradient(current_parameter)

\* main, line 504.
Rho(cur_obj, next_obj, delta_m) == DDiv(DSub(cur_obj, next_obj), delta_m)

\* main, lines 301-304 and 349: in the first iteration the exact Hessian is
\* computed into a Matrix declared inside the if block, which ends with the
\* block; the current_hessian handed on at line 349 is another object, the
\* one of an enclosing scope, and is left as it was.
HessianPassed ==
  IF iteration_count = 1
  THEN LET block_hessian == ComputeHessian(current_parameter)
       IN  current_hessian
  ELSE current_hessian

\* main, lines 508-530, for one parameter: Hs = H*s, temp1 = Hs*Hs' scaled
\* by scale_temp1 = Hs.s (line 520 names it scale_temp), temp2 = y*y' scaled
\* by s.y, updated_hessian = H - temp1 + temp2.
UpdatedHessian(H, par_diff, grad_diff) ==
  LET Hs == DMul(H, par_diff)
      scale_temp1 == DMul(Hs, par_diff)
      temp1 == DMul(scale_temp1, DMul(Hs, Hs))
      temp2 == DMul(DMul(par_diff, grad_diff), DMul(grad_diff, grad_diff))
  IN  DAdd(DSub(H, temp1), temp2)

\* A driver that forgets to take over the new radius.
RadiusKept(radius, new) == radius

\* main, line 374: current_radius=new_radius.
RadiusAfterDirection(radius, new) == new

\* main, lines 198-530: objective, gradient, trust-region direction, candidate,
\* sampling error and the differences the BFGS update is computed from.
TrustRegionStep ==
  /\ ddcm_pc = "body"
  /\ \E co \in ObjVals, no \in ObjVals, np \in Params, dm \in DeltaVals,
        nr \in RadiusVals :
       /\ (np = current_parameter => no = co)
       /\ current_objective' = co
       /\ current_gradient' = ComputeGradient(current_parameter)
       /\ current_delta_m' = dm
       /\ next_parameter' = np
       /\ new_radius' = nr
       /\ current_radius' = RadiusAfterDirection(current_radius, nr)
       /\ p_norm' = DAbs(CurrentP(current_parameter, np))
       /\ next_objective' = no
       /\ IF end_sampling = 0
          THEN /\ sample_size' = list_size
               /\ correction_factor' = CorrectionFactor(list_size)
               /\ \E d \in [1 .. list_size -> DiffVals] :
                    sampling_error' = SamplingError(d, DSub(co, no), list_size)
               /\ current_percent_added_sample' =
                    PercentAdded(dm, sampling_error', current_percent_added_sample)
          ELSE /\ sampling_error' = Unset
               /\ UNCHANGED <<sample_size, correction_factor,
                              current_percent_added_sample>>
       /\ next_gradient' = NextGradient
       /\ rho' = Rho(co, no, dm)
       /\ diff_gradient' = SubOverwrite(current_gradient', next_gradient')
       /\ diff_par' = SubOverwrite(Fin(current_parameter), Fin(np))
       /\ hessian_passed' = HessianPassed
       /\ updated_hessian' = UpdatedHessian(current_hessian, diff_par', diff_gradient')
  /\ ddcm_pc' = "accept"
  /\ UNCHANGED <<ddcmInputs, list_size, obj_gradient, end_sampling, current_parameter,
                 iteration_count, current_hessian, ddcmHistory>>

\* A test that also accepts rho = eta.
StepAcceptedInclusive == DGreater(rho, eta) \/ rho = eta

\* main, line 538: the test that accepts the candidate.
StepAccepted == DGreater(rho, eta)

\* optimization.TrustRadiusUpdate(rho, p_norm, &current_radius).
TrustRadiusUpdate(r, norm, radius) == RadiusVals

\* main, lines 537-547: accept or reject the candidate, update the radius.
AcceptStep ==
  /\ ddcm_pc = "accept"
  /\ current_parameter' = IF StepAccepted THEN next_parameter ELSE current_parameter
  /\ last_accepted' = IF DGreater(rho, eta) THEN next_parameter ELSE last_accepted
  /\ current_hessian' = IF StepAccepted THEN updated_hessian ELSE current_hessian
  /\ current_radius' \in TrustRadiusUpdate(rho, p_norm, current_radius)
  /\ radius_update' = <<rho, p_norm, current_radius>>
  /\ radius_calls' = radius_calls + 1
  /\ ddcm_pc' = "stop"
  /\ UNCHANGED <<ddcmInputs, list_size, obj_gradient, sample_size, end_sampling,
                 current_percent_added_sample, correction_factor, iteration_count,
                 ddcmTemps, expand_arg, expand_calls>>

\* main, lines 573-577: the test that leaves the loop.
GradientNormSmall == DLess(DAbs(next_gradient), zero_tolerance)

\* A rule that does not look at the sample size.
StoppingRuleAnySample == GradientNormSmall

\* main, lines 550 and 577: the condition of the break.
StoppingRuleFires == sample_size = num_of_people /\ GradientNormSmall

\* A test that takes a partial sample for the whole data.
AllDataUsedEarly == sample_size <= num_of_people

\* main, line 550: if(sample_size==num_of_people).
AllDataUsed == sample_size = num_of_people

\* main, lines 550-585: the stopping rule and the end of the loop body; the
\* body's values are dropped (the ones declared before the loop are assigned
\* again by the next iteration before it reads them).
StoppingRule ==
  /\ ddcm_pc = "stop"
  /\ end_sampling' = IF AllDataUsed THEN end_sampling + 1 ELSE end_sampling
  /\ ddcm_pc' = IF StoppingRuleFires THEN "done" ELSE "loop"
  /\ current_objective' = Unset
  /\ next_objective' = Unset
  /\ current_gradient' = Unset
  /\ current_delta_m' = Unset
  /\ next_parameter' = -1
  /\ p_norm' = Fin(0)
  /\ sampling_error' = Unset
  /\ next_gradient' = Unset
  /\ rho' = Fin(0)
  /\ diff_gradient' = Fin(0)
  /\ diff_par' = Fin(0)
  /\ hessian_passed' = Unset
  /\ updated_hessian' = Unset
  /\ new_radius' = Unset
  /\ radius_update' = Unset
  /\ UNCHANGED <<ddcmInputs, list_size, obj_gradient, sample_size,
                 current_percent_added_sample, current_parameter, current_radius,
                 correction_factor, iteration_count, current_hessian, expand_arg,
                 expand_calls, last_accepted, radius_calls>>

\* The driver before main runs, for the specifications of the other programs.
DDCMParked ==
  /\ ddcm_pc = "loop"
  /\ num_of_people = 1
  /\ initial_parameter = 0
  /\ list_size = 0
  /\ obj_gradient = [q \in Params |-> Fin(0)]
  /\ sample_size = 0
  /\ end_sampling = 0
  /\ current_percent_added_sample = Fin(50)
  /\ current_parameter = 0
  /\ current_radius = initial_radius
  /\ correction_factor = Fin(0)
  /\ iteration_count = 0
  /\ current_hessian = Fin(0)
  /\ current_objective = Unset
  /\ next_objective = Unset
  /\ current_gradient = Unset
  /\ current_delta_m = Unset
  /\ next_parameter = -1
  /\ p_norm = Fin(0)
  /\ sampling_error = Unset
  /\ next_gradient = Unset
  /\ rho = Fin(0)
  /\ diff_gradient = Fin(0)
  /\ diff_par = Fin(0)
  /\ hessian_passed = Unset
  /\ updated_hessian = Unset
  /\ new_radius = Unset
  /\ expand_arg = Unset
  /\ expand_calls = 0
  /\ last_accepted = -1
  /\ radius_update = Unset
  /\ radius_calls = 0

(***************************************************************************)
(* The specifications, one per program.                                   *)
(***************************************************************************)
notOGDT == <<cfVars, nnVars, batchVars, lrVars, ddcmVars>>

notCF == <<ogdtVars, nnVars, batchVars, lrVars, ddcmVars>>

notNNSVM == <<ogdtVars, cfVars, batchVars, lrVars, ddcmVars>>

notDDCM == <<ogdtVars, cfVars, nnVars, batchVars, lrVars>>

notBatch == <<ogdtVars, cfVars, nnVars, lrVars, ddcmVars>>

notLR == <<ogdtVars, cfVars, nnVars, batchVars, ddcmVars>>

InitOGDT == OGDTInit /\ CFParked /\ NNParked /\ BatchParked /\ LRParked /\ DDCMParked

NextOGDT ==
  \/ LearnCreate /\ UNCHANGED notOGDT
  \/ LearnFinish /\ UNCHANGED notOGDT
  \/ \E tid \in Threads : ThreadSwitch(tid) /\ UNCHANGED notOGDT
  \/ \E tid \in Threads : ThreadRead(tid) /\ UNCHANGED notOGDT
  \/ \E tid \in Threads : ThreadPredict(tid) /\ UNCHANGED notOGDT
  \/ \E tid \in Threads : ThreadWaitSent(tid) /\ UNCHANGED notOGDT
  \/ \E tid \in Threads : ThreadSentDone(tid) /\ UNCHANGED notOGDT
  \/ \E tid \in Threads : ThreadComm(tid) /\ UNCHANGED notOGDT
  \/ \E tid \in Threads : ThreadWaitUsed(tid) /\ UNCHANGED notOGDT
  \/ \E tid \in Threads : ThreadUsedDone(tid) /\ UNCHANGED notOGDT

SpecOGDT == InitOGDT /\ [][NextOGDT]_vars

InitCF == CFInit /\ OGDTParked /\ NNParked /\ BatchParked /\ LRParked /\ DDCMParked

NextCF ==
  \/ \E recs \in SizeVals : NumRecs(recs) /\ UNCHANGED notCF
  \/ \E num \in SizeVals : NumUsersForSimilarity(num) /\ UNCHANGED notCF

SpecCF == InitCF /\ [][NextCF]_vars

InitNNSVM == NNInit /\ OGDTParked /\ CFParked /\ BatchParked /\ LRParked /\ DDCMParked

NextNNSVM ==
  \/ InitTrain /\ UNCHANGED notNNSVM
  \/ Classify /\ UNCHANGED notNNSVM

SpecNNSVM == InitNNSVM /\ [][NextNNSVM]_vars

InitDDCM == DDCMInit /\ OGDTParked /\ CFParked /\ NNParked /\ BatchParked /\ LRParked

NextDDCM ==
  \/ ExpandSample /\ UNCHANGED notDDCM
  \/ LoopExit /\ UNCHANGED notDDCM
  \/ TrustRegionStep /\ UNCHANGED notDDCM
  \/ AcceptStep /\ UNCHANGED notDDCM
  \/ StoppingRule /\ UNCHANGED notDDCM

SpecDDCM == InitDDCM /\ [][NextDDCM]_vars

InitBatch == NNInit /\ BatchInit /\ OGDTParked /\ CFParked /\ LRParked /\ DDCMParked

NextBatch ==
  \/ BatchClassifyOpen /\ UNCHANGED notBatch
  \/ BatchClassifyVector /\ UNCHANGED notBatch
  \/ BatchClassifyClose /\ UNCHANGED notBatch

SpecBatch == InitBatch /\ [][NextBatch]_vars

InitLR == LRInit /\ OGDTParked /\ CFParked /\ NNParked /\ BatchParked /\ DDCMParked

NextLR ==
  \/ \E p \in PrunedVals, e \in ErrorVals : ApplyDelta(p, e) /\ UNCHANGED notLR
  \/ \E p \in PrunedVals, e \in ErrorVals : ApplyPostponed(p, e) /\ UNCHANGED notLR
  \/ PostponedSetZero /\ UNCHANGED notLR
  \/ FinalSetZero /\ UNCHANGED notLR
  \/ \E n \in 0 .. MaxPoints : ResultInit(n) /\ UNCHANGED notLR
  \/ \E n \in 0 .. MaxPoints : ResultLoad(n) /\ UNCHANGED notLR

SpecLR == InitLR /\ [][NextLR]_vars

(***************************************************************************)
(* The claims.                                                            *)
(***************************************************************************)

\* C1: whenever a thread i is executing OgdTCommUpdate for its round
\* k = t_n_it_[i], every thread j has already written its round-k message
\* into m_pool_[j]: barrier_msg_all_sent_ separates the round's message
\* writes from the round's message reads.
C1_MsgSentBeforeRead ==
  \A i \in Threads : \A j \in Threads :
    thr_pc[i] = "comm" => m_round[j] >= t_n_it_[i]

\* C1 witness: in the second round a thread is about to read the round-2
\* message of another thread.
C1_Witness ==
  \E i \in Threads : \E j \in Threads :
    /\ i # j
    /\ comm_method_ = 1
    /\ thr_pc[i] = "comm"
    /\ loop_h[i] = j
    /\ t_n_it_[i] = 2
    /\ m_round[j] = 2

\* C2: a message slot m_pool_[j] holds the message of round k+1 only when
\* every thread has finished its OgdTCommUpdate of round k:
\* barrier_msg_all_used_ keeps a message from being replaced while another
\* thread may still read it.
C2_NoOverwriteBeforeUsed ==
  \A i \in Threads : \A j \in Threads :
    comm_done[i] >= m_round[j] - 1

\* C2 witness: a thread has written its round-2 message while another thread,
\* done with round 1, has not yet sent its own.
C2_Witness ==
  \E i \in Threads : \E j \in Threads :
    /\ i # j
    /\ comm_method_ = 1
    /\ m_round[j] = 2
    /\ comm_done[i] = 1
    /\ m_round[i] = 1

\* C3: for every started thread t_state_[tid] is 0, 1 or 2, it is 0 when the
\* thread starts, it changes only along 0 -> 1 -> 2 -> 0, and the default
\* branch of the switch is never taken.
C3_ThreadStateCycle ==
  /\ [](\A t \in Threads :
          thr_pc[t] # "none" => (t_state_[t] \in {0, 1, 2} /\ thr_pc[t] # "error"))
  /\ [][\A t \in Threads :
          /\ (thr_pc[t] = "none" /\ thr_pc'[t] # "none") => t_state_'[t] = 0
          /\ (thr_pc[t] # "none" /\ t_state_'[t] # t_state_[t]) =>
                <<t_state_[t], t_state_'[t]>> \in {<<0, 1>>, <<1, 2>>, <<2, 0>>}]_vars

\* C3 witness: a thread is back in state 0, reading data, after a full cycle
\* through states 1 and 2.
C3_Witness ==
  \E t \in Threads :
    /\ thr_pc[t] = "read"
    /\ t_n_it_[t] = 1
    /\ comm_done[t] = 1
    /\ t_state_[t] = 0

\* C4: while end_sampling = 0 the iteration's sampling step sets the
\* percentage to 100*(0.5*sampling_error/current_delta_m)^2 when
\* current_delta_m < 0.5*sampling_error and leaves it unchanged otherwise; no
\* other step changes it, and an ExpandSubset call (made by an iteration that
\* starts with end_sampling = 0) is handed exactly the percentage the
\* iteration before it left.
C4_PercentRule ==
  [][ /\ (ddcm_pc = "body" /\ end_sampling = 0) =>
          current_percent_added_sample' =
            (IF DLess(current_delta_m', DMul(Frac(1, 2), sampling_error'))
             THEN LET half == DDiv(DMul(Frac(1, 2), sampling_error'), current_delta_m')
                  IN  DMul(Fin(100), DMul(half, half))
             ELSE current_percent_added_sample)
      /\ ~(ddcm_pc = "body" /\ end_sampling = 0) =>
          current_percent_added_sample' = current_percent_added_sample
      /\ (ddcm_pc = "loop" /\ ddcm_pc' = "body" /\ end_sampling = 0) =>
          expand_arg' = current_percent_added_sample
      /\ ~(ddcm_pc = "loop" /\ ddcm_pc' = "body" /\ end_sampling = 0) =>
          expand_arg' = expand_arg]_vars

\* C4 witness: ExpandSubset was just called with a finite percentage that
\* the rule computed in the iteration before (it is none of the initial ones).
C4_Witness ==
  /\ ddcm_pc = "body"
  /\ iteration_count >= 2
  /\ IsFinite(expand_arg)
  /\ expand_arg \notin PercentVals
  /\ expand_arg = current_percent_added_sample

\* C5: the BFGS update is computed from the difference of the current
\* parameter and the candidate and from the difference of the gradients at
\* those two parameter vectors.
C5_BfgsDifferences ==
  ddcm_pc = "accept" =>
    /\ diff_par = SubOverwrite(Fin(current_parameter), Fin(next_parameter))
    /\ diff_gradient = SubOverwrite(ComputeGradient(current_parameter),
                                    ComputeGradient(next_parameter))

\* C6: the loop is left only at max_iteration or by the stopping rule, at the
\* end of an iteration with sample_size = num_of_people and a gradient norm
\* below zero_tolerance; an iteration with another sample size or a norm that
\* is not below zero_tolerance goes back to the loop test.
C6_StoppingRule ==
  [][ /\ (ddcm_pc # "done" /\ ddcm_pc' = "done") =>
          \/ ddcm_pc = "loop" /\ iteration_count = max_iteration
          \/ /\ ddcm_pc = "stop"
             /\ sample_size = num_of_people
             /\ DLess(DAbs(next_gradient), zero_tolerance)
      /\ (/\ ddcm_pc = "stop"
          /\ \/ sample_size # num_of_people
             \/ ~DLess(DAbs(next_gradient), zero_tolerance)) =>
          ddcm_pc' = "loop"]_vars

\* C6 witness: the loop was left before max_iteration.
C6_Witness ==
  /\ ddcm_pc = "done"
  /\ iteration_count < max_iteration
  /\ iteration_count >= 2
  /\ sample_size = num_of_people

\* The number of steps the driver can still take.
StepsLeft ==
  IF ddcm_pc = "done" THEN -1
  ELSE 4 * (max_iteration - iteration_count) +
       (CASE ddcm_pc = "loop" -> 0
          [] ddcm_pc = "body" -> 3
          [] ddcm_pc = "accept" -> 2
          [] ddcm_pc = "stop" -> 1)

\* C7: iteration_count grows by exactly 1 at the start of every iteration and
\* nowhere else, never exceeds max_iteration = 50, and is between 1 and 50
\* when the loop is left; every step lowers the bounded number of steps
\* left, so no run of the loop is infinite.
C7_Terminates ==
  /\ [](/\ iteration_count \in 0 .. max_iteration
        /\ ddcm_pc = "done" => iteration_count \in 1 .. 50
        /\ StepsLeft >= -1)
  /\ [][/\ (ddcm_pc = "loop" /\ ddcm_pc' = "body") =>
             iteration_count' = iteration_count + 1
        /\ ~(ddcm_pc = "loop" /\ ddcm_pc' = "body") =>
             iteration_count' = iteration_count
        /\ StepsLeft' < StepsLeft]_vars

\* C7 witness: the loop ended because iteration_count reached 50 (no
\* gradient of the full sample is below zero_tolerance, so it never broke).
C7_Witness ==
  /\ ddcm_pc = "done"
  /\ iteration_count = 50
  /\ sample_size = num_of_people
  /\ \A p \in Params : ~DLess(DAbs(ComputeGradient(p)), zero_tolerance)

\* C8: rho = (current_objective - next_objective)/current_delta_m; the
\* accept step replaces current_parameter by the candidate exactly when
\* rho > eta and no other step changes it, so current_parameter (the final
\* solution) is the initial parameter until a step is accepted and the last
\* accepted candidate afterwards.
C8_StepAcceptance ==
  /\ [](/\ ddcm_pc \in {"accept", "stop"} =>
             rho = DDiv(DSub(current_objective, next_objective), current_delta_m)
        /\ current_parameter =
             (IF last_accepted = -1 THEN initial_parameter ELSE last_accepted))
  /\ [][/\ ddcm_pc = "accept" =>
             current_parameter' =
               (IF DGreater(rho, eta) THEN next_parameter ELSE current_parameter)
        /\ ddcm_pc # "accept" => current_parameter' = current_parameter]_vars

\* C8 witness: after an accepted step, a candidate with rho = eta was rejected.
C8_Witness ==
  /\ ddcm_pc = "stop"
  /\ rho = eta
  /\ last_accepted # -1
  /\ current_parameter # initial_parameter
  /\ next_parameter # current_parameter

\* C9: NumRecs and NumUsersForSimilarity store an argument >= 1 and ignore an
\* argument < 1; each stored value is the constructed one or the most recent
\* argument >= 1, no setter makes a value < 1, and neither setter changes the
\* other's field.
C9_SettersIgnoreInvalid ==
  /\ [](/\ numRecs = (IF cf_last_valid[1] = 0 THEN cf_constructed[1]
                                             ELSE cf_last_valid[1])
        /\ numUsersForSimilarity = (IF cf_last_valid[2] = 0 THEN cf_constructed[2]
                                                           ELSE cf_last_valid[2]))
  /\ [][/\ numRecs >= 1 => numRecs' >= 1
        /\ numUsersForSimilarity >= 1 => numUsersForSimilarity' >= 1
        /\ cf_call'[1] = "NumRecs" =>
             /\ numRecs' = (IF cf_call'[2] < 1 THEN numRecs ELSE cf_call'[2])
             /\ numUsersForSimilarity' = numUsersForSimilarity
        /\ cf_call'[1] = "NumUsersForSimilarity" =>
             /\ numUsersForSimilarity' =
                  (IF cf_call'[2] < 1 THEN numUsersForSimilarity ELSE cf_call'[2])
             /\ numRecs' = numRecs]_vars

\* C9 witness: NumRecs(0) has just been ignored after an earlier valid call
\* changed the constructed value.
C9_Witness ==
  /\ cf_call = <<"NumRecs", 0>>
  /\ cf_last_valid[1] = 2
  /\ cf_constructed[1] = 0
  /\ numRecs = 2

\* C10: Classify returns 0 or 1, 1 exactly when
\* dot(model_.w_, datum) - model_.thresh_ > 0, and leaves the model unchanged.
C10_ClassifyLabel ==
  [][nn_call' = "Classify" =>
       /\ testlabel' \in {0, 1}
       /\ testlabel' = 1 <=> (dot(model_w_, datum') - model_thresh_ > 0)
       /\ model_w_' = model_w_
       /\ model_thresh_' = model_thresh_]_vars

\* C10 witness: a test vector exactly on the boundary was labelled 0.
C10_Witness ==
  /\ nn_call = "Classify"
  /\ model_w_[1] # 0
  /\ datum[1] # 0
  /\ dot(model_w_, datum) - model_thresh_ = 0
  /\ testlabel = 0

\* C11: when BatchClassify has written the label file, it holds one label
\* per column of testset, each the label Classify gives that column's first
\* n_rows - 1 entries, and no entry outside testset was read.
C11_BatchClassifyLabels ==
  batch_pc = "done" =>
    /\ batch_num_features_ = n_rows - 1
    /\ Len(labels_written) = n_cols
    /\ ~invalid_read
    /\ \A c \in 0 .. (n_cols - 1) :
         labels_written[c + 1] =
           ClassifyLabel([k \in 1 .. (n_rows - 1) |-> testset[<<k - 1, c>>]])

\* C12: after Init(n) or load (of n points) returned, num_query_points_ = n,
\* the result holds n entries, and every entry has
\* self_contribution_subtracted_ false, pruned_ 0 and used_error_ 0.
C12_ResultInit ==
  (result_pc = "initialized" /\ init_arg >= 0) =>
    /\ num_query_points_ = init_arg
    /\ self_contribution_subtracted_ = [i \in 1 .. init_arg |-> FALSE]
    /\ result_pruned_ = [i \in 1 .. init_arg |-> Fin(0)]
    /\ result_used_error_ = [i \in 1 .. init_arg |-> Fin(0)]

\* The orders in which n applied arguments can be summed.
Orders(n) == {f \in [1 .. n -> 1 .. n] : \A i, j \in 1 .. n : f[i] = f[j] => i = j}

\* The sum of field k of the applied arguments, taken in the given order
\* (the last of the order first).
RECURSIVE SumInOrder(_, _, _)
SumInOrder(order, k, n) ==
  IF n = 0 THEN Fin(0)
  ELSE DAdd(applied[order[n]][k], SumInOrder(order, k, n - 1))

Halted(t) == thr_pc[t] \in {"returned", "error", "sent_blocked", "used_blocked"}

\* C14: no worker thread stays blocked at a barrier once the others have
\* returned: when every thread Learn started has either returned or is
\* blocked (so that no thread is left to release a barrier), all of them
\* have returned, and Learn can go on to SaveLog.
C14_WorkersReturn ==
  (main_pc = "join" /\ \A t \in Threads : Halted(t)) =>
    \A t \in Threads : thr_pc[t] \in {"returned", "error"}

\* The sum of the messages m_pool_[0 .. n - 1].
RECURSIVE MsgSum(_)
MsgSum(n) == IF n = 0 THEN Fin(0) ELSE DAdd(MsgSum(n - 1), m_pool_[n - 1])

C16_SamplingEnds ==
  [][/\ end_sampling' >= end_sampling
     /\ expand_calls' # expand_calls =>
          ddcm_pc = "loop" /\ end_sampling = 0 /\ expand_calls' = expand_calls + 1
     /\ (ddcm_pc = "loop" /\ ddcm_pc' = "body" /\ end_sampling = 0) =>
          expand_calls' = expand_calls + 1
     /\ ddcm_pc = "stop" => (end_sampling' # end_sampling <=> sample_size = num_of_people)
     /\ ddcm_pc # "stop" => end_sampling' = end_sampling
     /\ end_sampling # 0 =>
          /\ list_size' = list_size
          /\ sample_size' = sample_size
          /\ correction_factor' = correction_factor
          /\ current_percent_added_sample' = current_percent_added_sample
          /\ expand_calls' = expand_calls]_vars

\* C16 witness: the sample became complete in the third iteration, after
\* three ExpandSubset calls, and later iterations ran without a call.
C16_Witness ==
  /\ ddcm_pc = "body"
  /\ iteration_count = 5
  /\ expand_calls = 3
  /\ end_sampling = 2
  /\ sample_size = num_of_people

\* C17: the Hessian handed to the trust-region step is, in the first
\* iteration, the exact Hessian computed in that iteration and, in a later
\* iteration, the Hessian the iteration before left (its own, or the BFGS
\* update of it if its step was accepted).
C17_HessianCarriedOver ==
  ddcm_pc = "accept" =>
    hessian_passed = (IF iteration_count = 1
                      THEN ComputeHessian(current_parameter)
                      ELSE current_hessian)

\* C18: in every iteration current_radius first takes the new_radius that
\* ComputeDerectionUnderConstraints returned; then, after the accept/reject
\* decision, TrustRadiusUpdate is called once, with the iteration's rho, the
\* norm of the iteration's step and that radius, accepted or not; no other
\* step changes current_radius, so there is one call per iteration.
C18_RadiusOrder ==
  /\ [](radius_calls = (IF ddcm_pc \in {"body", "accept"}
                        THEN iteration_count - 1 ELSE iteration_count))
  /\ [][/\ ddcm_pc = "body" =>
             /\ current_radius' = new_radius'
             /\ radius_calls' = radius_calls
        /\ ddcm_pc = "accept" =>
             /\ current_radius = new_radius
             /\ radius_calls' = radius_calls + 1
             /\ radius_update' =
                  <<DDiv(DSub(current_objective, next_objective), current_delta_m),
                    DAbs(DSub(Fin(next_parameter), Fin(current_parameter))),
                    new_radius>>
        /\ ddcm_pc \notin {"body", "accept"} =>
             /\ current_radius' = current_radius
             /\ radius_calls' = radius_calls]_vars

\* C18 witness: the second iteration rejected its step, took over a new
\* radius other than the initial one and TrustRadiusUpdate changed it again.
C18_Witness ==
  /\ ddcm_pc = "stop"
  /\ iteration_count = 2
  /\ radius_calls = 2
  /\ ~DGreater(rho, eta)
  /\ new_radius # initial_radius
  /\ radius_update = <<rho, p_norm, new_radius>>
  /\ p_norm = Fin(1)
  /\ current_radius # new_radius

\* C19: every divisor of an iteration is non-zero: current_delta_m (rho,
\* percent added) and, when the sampling error is computed,
\* sample_size*(sample_size-1) and num_of_people-1.
C19_NonZeroDivisors ==
  ddcm_pc = "accept" =>
    /\ current_delta_m # Fin(0)
    /\ end_sampling = 0 =>
         /\ sample_size * (sample_size - 1) # 0
         /\ num_of_people - 1 # 0

\* C20: the percentage handed to ExpandSubset is in (0, 100], and a
\* percentage the adaptive rule has just recomputed does not exceed 100.
C20_PercentValid ==
  /\ expand_arg # Unset =>
       DGreater(expand_arg, Fin(0)) /\ ~DGreater(expand_arg, Fin(100)) /\ IsFinite(expand_arg)
  /\ (/\ ddcm_pc = "accept"
      /\ end_sampling = 0
      /\ DLess(current_delta_m, DMul(Frac(1, 2), sampling_error))) =>
       ~DGreater(current_percent_added_sample, Fin(100))

\* C21: when the stopping rule fires, the gradient whose norm was compared
\* with zero_tolerance is the gradient at the parameter vector that
\* current_parameter holds then (the final solution), also when the
\* iteration's step was accepted.
C21_StopGradientAtSolution ==
  (ddcm_pc = "stop" /\ StoppingRuleFires) =>
    next_gradient = ComputeGradient(current_parameter)
====
